---------------------------- MODULE Spec2Model ----------------------------
(***************************************************************************)
(* Model of the support-ticket service (src/app.py, src/models.py).        *)
(*                                                                         *)
(* State: the persisted Ticket table, the session the next request         *)
(* carries, the clock datetime.utcnow() reads, the last request and its    *)
(* response, and the assign-self requests that are in flight when          *)
(* requests are allowed to interleave.                                     *)
(*                                                                         *)
(* Text values (title, description) are modelled by their shape: a number  *)
(* of leading blanks, a number of characters from the first to the last    *)
(* non-blank one, and a number of trailing blanks.  str.strip() and len()  *)
(* are computed on that shape.                                             *)
(***************************************************************************)
EXTENDS Integers, Sequences, FiniteSets, TLC

VARIABLES
  tickets,   \* the Ticket table: id -> row
  session,   \* the session the client's next request carries
  now,       \* what datetime.utcnow() returns
  req,       \* the request being answered (NoRequest: none)
  resp,      \* its response
  before,    \* the table, session and clock that request found
  inflight,  \* assign-self requests running side by side
  probe      \* the body under test in SpecValidate

vars == <<tickets, session, now, req, resp, before, inflight, probe>>

----------------------------------------------------------------------------
(* Bounds of the model *)

\* Spec and SpecValidate: ids the store hands out are capped at MaxId
MaxId == 2
\* SpecClock and SpecRace: ids the store hands out are capped at MaxIdFew
MaxIdFew == 1
\* the clock runs from 0 to MaxTime
MaxTime == 2
\* blanks put before or after a text value
MaxPad == 1

----------------------------------------------------------------------------
(* Program constants *)

TITLE_MIN == 3
TITLE_MAX == 120
DESC_MIN == 1
DESC_MAX == 1000

REPORTERS == <<"Alice", "Bob">>
ADMINS == <<"Admin1", "Admin2">>

valid_statuses == <<"open", "in_progress", "closed">>
valid_priorities == <<"low", "medium", "high">>

\* Python's None / SQL NULL / an absent session key
NULL == "None"
\* a key absent from a JSON object or from a form
MISSING == "<missing>"
\* a JSON value that is not a string (a number)
NUMBER == "<number>"

Range(s) == {s[i] : i \in 1..Len(s)}

----------------------------------------------------------------------------
(* Text values *)

\* the string  ' '*lead + (core characters, first and last non-blank) + ' '*trail
Str(lead, core, trail) ==
  [kind |-> "string", lead |-> lead, core |-> core, trail |-> trail]

\* a JSON value of another kind standing where a string is expected
NonStr(kind) == [kind |-> kind, lead |-> 0, core |-> 0, trail |-> 0]

EmptyStr == Str(0, 0, 0)

\* len(s)
StrLen(s) == s.lead + s.core + s.trail

\* s.strip(): leading and trailing whitespace removed
Strip(s) == Str(0, s.core, 0)

\* dict.get(key, ''): the default only replaces an absent key
GetOrEmpty(v) == IF v.kind = "missing" THEN EmptyStr ELSE v

----------------------------------------------------------------------------
(* Identity resolver: app.py 14-29 *)

UnsetSession == [user_name |-> NULL, user_role |-> NULL]

\* session.get(key, default)
SessionGet(v, default) == IF v = NULL THEN default ELSE v

current_user(sess) ==
  [name |-> SessionGet(sess.user_name, "Alice"),
   role |-> SessionGet(sess.user_role, "Reporter")]

is_admin(sess) == current_user(sess).role = "Admin"

is_reporter(sess) == current_user(sess).role = "Reporter"

----------------------------------------------------------------------------
(* Responses *)

NoFlash == "<none>"

Response(code, errors, body) ==
  [code |-> code, errors |-> errors, body |-> body, flash |-> NoFlash]

\* what a handler hands back: the response and the store it leaves
Outcome(response, store) == [resp |-> response, tickets |-> store]

\* datetime.isoformat(): a timestamp rendered as a string
isoformat(t) == <<"iso", t>>

\* Ticket.to_dict
to_dict(t) ==
  [id |-> t.id, title |-> t.title, description |-> t.description,
   priority |-> t.priority, status |-> t.status,
   reporter_name |-> t.reporter_name, assigned_admin |-> t.assigned_admin,
   created_at |-> isoformat(t.created_at),
   updated_at |-> isoformat(t.updated_at)]

\* the 404 handler's JSON: {'message': 'Resource not found'}, no 'errors' list
not_found == Response(404, <<>>, <<>>)

\* an exception no handler catches: the 500 handler
internal_error == Response(500, <<"Internal server error">>, <<>>)

----------------------------------------------------------------------------
(* Request bodies: request.get_json() *)

\* a body that parsed to a JSON object with these keys (MISSING: key absent)
JsonObject(title, description, priority, status) ==
  [kind |-> "object", title |-> title, description |-> description,
   priority |-> priority, status |-> status]

\* a body that parsed to a JSON value of another kind:
\*   "null"   - null, {}, [], 0, "" or false: falsy in Python
\*   "number" - a non-zero number
\*   "array"  - a non-empty array without the element "status"
JsonOther(kind) ==
  [kind |-> kind, title |-> NonStr("missing"), description |-> NonStr("missing"),
   priority |-> MISSING, status |-> MISSING]

\* Python's  not data
Falsy(data) == data.kind = "null"

----------------------------------------------------------------------------
(* Validation: app.py 31-54 *)

\* str.strip() on a value that is no string raises AttributeError
StripRaises(v) == GetOrEmpty(v).kind # "string"

\* data.get on a number or an array raises AttributeError
ValidateRaises(data) ==
  \/ data.kind # "object"
  \/ StripRaises(data.title)
  \/ StripRaises(data.description)

title_errors(data) ==
  LET title == Strip(GetOrEmpty(data.title))
  IN  IF StrLen(title) = 0 THEN <<"Title is required">>
      ELSE IF StrLen(title) < TITLE_MIN \/ StrLen(title) > TITLE_MAX
           THEN <<"Title must be between 3 and 120 characters">>
           ELSE <<>>

description_errors(data) ==
  LET description == Strip(GetOrEmpty(data.description))
  IN  IF StrLen(description) = 0 THEN <<"Description is required">>
      ELSE IF StrLen(description) < DESC_MIN \/ StrLen(description) > DESC_MAX
           THEN <<"Description must be between 1 and 1000 characters">>
           ELSE <<>>

priority_errors(data) ==
  LET priority == IF data.priority = MISSING THEN "" ELSE data.priority
  IN  IF priority \notin Range(valid_priorities)
      THEN <<"Priority must be one of: low, medium, high">>
      ELSE <<>>

\* a validation that stops at the first field that fails
validate_ticket_data_first_only(data) ==
  IF title_errors(data) # <<>> THEN title_errors(data)
  ELSE IF description_errors(data) # <<>> THEN description_errors(data)
  ELSE priority_errors(data)

validate_ticket_data(data) ==
  title_errors(data) \o description_errors(data) \o priority_errors(data)

----------------------------------------------------------------------------
(* The Ticket table: models.py 6-15 *)

Max(S) == CHOOSE x \in S : \A y \in S : y <= x

\* SQLite's INTEGER PRIMARY KEY (no AUTOINCREMENT): one more than the largest
\* id in the table, 1 for an empty table
NewId(store) == IF DOMAIN store = {} THEN 1 ELSE Max(DOMAIN store) + 1

\* Ticket(title=, description=, priority=, reporter_name=) as the INSERT
\* writes it: status and assigned_admin from the column defaults, created_at
\* and updated_at each from its own call of datetime.utcnow
Ticket(id, title, description, priority, reporter_name, created, updated) ==
  [id |-> id, title |-> title, description |-> description,
   priority |-> priority, status |-> "open",
   reporter_name |-> reporter_name, assigned_admin |-> NULL,
   created_at |-> created, updated_at |-> updated]

\* db.session.add(ticket)
Insert(store, t) ==
  [i \in DOMAIN store \cup {t.id} |-> IF i = t.id THEN t ELSE store[i]]

\* db.session.delete(ticket)
Remove(store, id) == [i \in DOMAIN store \ {id} |-> store[i]]

----------------------------------------------------------------------------
(* API handlers.  t is the clock when the handler runs, ok whether           *)
(* db.session.commit() succeeds; a failed commit is rolled back.            *)

\* a rollback that leaves what the session had written in the table
rollback_keeps_writes(store, written) == written

\* db.session.rollback() after a commit that failed: what the session had
\* written is discarded and the table is what it was
rollback(store, written) == store

\* create_ticket with the body checked before the caller's role
create_ticket_validates_first(store, sess, data, t, later, ok) ==
  IF Falsy(data)
  THEN Outcome(Response(400, <<"No data provided">>, <<>>), store)
  ELSE IF ValidateRaises(data)
  THEN Outcome(internal_error, store)
  ELSE IF validate_ticket_data(data) # <<>>
  THEN Outcome(Response(400, validate_ticket_data(data), <<>>), store)
  ELSE IF ~is_reporter(sess)
  THEN Outcome(Response(403, <<"Only reporters can create tickets">>, <<>>), store)
  ELSE IF ~ok
  THEN Outcome(Response(500, <<"Failed to create ticket">>, <<>>), store)
  ELSE LET ticket == Ticket(NewId(store), data.title, data.description,
                            data.priority, current_user(sess).name, t, later)
       IN  Outcome(Response(201, <<>>, <<to_dict(ticket)>>), Insert(store, ticket))

\* create_ticket with the reporter taken from current_user's default
create_ticket_default_reporter(store, sess, data, t, later, ok) ==
  IF ~is_reporter(sess)
  THEN Outcome(Response(403, <<"Only reporters can create tickets">>, <<>>), store)
  ELSE IF Falsy(data)
  THEN Outcome(Response(400, <<"No data provided">>, <<>>), store)
  ELSE IF ValidateRaises(data)
  THEN Outcome(internal_error, store)
  ELSE IF validate_ticket_data(data) # <<>>
  THEN Outcome(Response(400, validate_ticket_data(data), <<>>), store)
  ELSE IF ~ok
  THEN Outcome(Response(500, <<"Failed to create ticket">>, <<>>), store)
  ELSE LET ticket == Ticket(NewId(store), data.title, data.description,
                            data.priority, "Alice", t, later)
       IN  Outcome(Response(201, <<>>, <<to_dict(ticket)>>), Insert(store, ticket))

\* POST /api/tickets ; later is the clock at the second column default
create_ticket(store, sess, data, t, later, ok) ==
  IF ~is_reporter(sess)
  THEN Outcome(Response(403, <<"Only reporters can create tickets">>, <<>>), store)
  ELSE IF Falsy(data)
  THEN Outcome(Response(400, <<"No data provided">>, <<>>), store)
  ELSE IF ValidateRaises(data)
  THEN Outcome(internal_error, store)
  ELSE IF validate_ticket_data(data) # <<>>
  THEN Outcome(Response(400, validate_ticket_data(data), <<>>), store)
  ELSE LET ticket == Ticket(NewId(store), data.title, data.description,
                            data.priority, current_user(sess).name, t, later)
       IN  IF ~ok
           THEN Outcome(Response(500, <<"Failed to create ticket">>, <<>>),
                        rollback(store, Insert(store, ticket)))
           ELSE Outcome(Response(201, <<>>, <<to_dict(ticket)>>), Insert(store, ticket))

\* assign_self without the check for a ticket that is already assigned
assign_self_reassign(store, sess, ticket_id, t, ok) ==
  IF ~is_admin(sess)
  THEN Outcome(Response(403, <<"Only admins can assign tickets">>, <<>>), store)
  ELSE IF ticket_id \notin DOMAIN store
  THEN Outcome(not_found, store)
  ELSE IF ~ok
  THEN Outcome(Response(500, <<"Failed to assign ticket">>, <<>>), store)
  ELSE LET ticket == [store[ticket_id] EXCEPT
                        !.assigned_admin = current_user(sess).name,
                        !.updated_at = t]
       IN  Outcome(Response(200, <<>>, <<to_dict(ticket)>>),
                   [store EXCEPT ![ticket_id] = ticket])

\* assign_self that refreshes updated_at before it looks at assigned_admin
\* and commits on its way out
assign_self_touch(store, sess, ticket_id, t, ok) ==
  IF ~is_admin(sess)
  THEN Outcome(Response(403, <<"Only admins can assign tickets">>, <<>>), store)
  ELSE IF ticket_id \notin DOMAIN store
  THEN Outcome(not_found, store)
  ELSE IF store[ticket_id].assigned_admin # NULL
  THEN Outcome(Response(400, <<"Ticket is already assigned">>, <<>>),
               [store EXCEPT ![ticket_id].updated_at = t])
  ELSE IF ~ok
  THEN Outcome(Response(500, <<"Failed to assign ticket">>, <<>>), store)
  ELSE LET ticket == [store[ticket_id] EXCEPT
                        !.assigned_admin = current_user(sess).name,
                        !.updated_at = t]
       IN  Outcome(Response(200, <<>>, <<to_dict(ticket)>>),
                   [store EXCEPT ![ticket_id] = ticket])

\* assign_self that also moves the ticket to in_progress
assign_self_starts_work(store, sess, ticket_id, t, ok) ==
  IF ~is_admin(sess)
  THEN Outcome(Response(403, <<"Only admins can assign tickets">>, <<>>), store)
  ELSE IF ticket_id \notin DOMAIN store
  THEN Outcome(not_found, store)
  ELSE IF store[ticket_id].assigned_admin # NULL
  THEN Outcome(Response(400, <<"Ticket is already assigned">>, <<>>), store)
  ELSE IF ~ok
  THEN Outcome(Response(500, <<"Failed to assign ticket">>, <<>>), store)
  ELSE LET ticket == [store[ticket_id] EXCEPT
                        !.assigned_admin = current_user(sess).name,
                        !.status = "in_progress",
                        !.updated_at = t]
       IN  Outcome(Response(200, <<>>, <<to_dict(ticket)>>),
                   [store EXCEPT ![ticket_id] = ticket])

\* PATCH /api/tickets/<id>/assign-self
assign_self(store, sess, ticket_id, t, ok) ==
  IF ~is_admin(sess)
  THEN Outcome(Response(403, <<"Only admins can assign tickets">>, <<>>), store)
  ELSE IF ticket_id \notin DOMAIN store
  THEN Outcome(not_found, store)
  ELSE IF store[ticket_id].assigned_admin # NULL
  THEN Outcome(Response(400, <<"Ticket is already assigned">>, <<>>), store)
  ELSE LET ticket == [store[ticket_id] EXCEPT
                        !.assigned_admin = current_user(sess).name,
                        !.updated_at = t]
       IN  IF ~ok
           THEN Outcome(Response(500, <<"Failed to assign ticket">>, <<>>),
                        rollback(store, [store EXCEPT ![ticket_id] = ticket]))
           ELSE Outcome(Response(200, <<>>, <<to_dict(ticket)>>),
                        [store EXCEPT ![ticket_id] = ticket])

\* 'status' not in data: iterating a number raises TypeError; an array is
\* searched for the element and an object for the key
StatusKeyRaises(data) == data.kind = "number"

StatusKeyMissing(data) ==
  \/ data.kind = "array"
  \/ data.kind = "object" /\ data.status = MISSING

\* update_status without the role check
update_status_any_role(store, sess, ticket_id, data, t, ok) ==
  IF ticket_id \notin DOMAIN store
  THEN Outcome(not_found, store)
  ELSE IF Falsy(data)
  THEN Outcome(Response(400, <<"Status is required">>, <<>>), store)
  ELSE IF StatusKeyRaises(data)
  THEN Outcome(internal_error, store)
  ELSE IF StatusKeyMissing(data)
  THEN Outcome(Response(400, <<"Status is required">>, <<>>), store)
  ELSE IF data.status \notin Range(valid_statuses)
  THEN Outcome(Response(400, <<"Status must be one of: open, in_progress, closed">>, <<>>), store)
  ELSE IF ~ok
  THEN Outcome(Response(500, <<"Failed to update ticket status">>, <<>>), store)
  ELSE LET ticket == [store[ticket_id] EXCEPT
                        !.status = data.status,
                        !.updated_at = t]
       IN  Outcome(Response(200, <<>>, <<to_dict(ticket)>>),
                   [store EXCEPT ![ticket_id] = ticket])

\* update_status that writes whatever status the body holds
update_status_unvalidated(store, sess, ticket_id, data, t, ok) ==
  IF ~is_admin(sess)
  THEN Outcome(Response(403, <<"Only admins can update ticket status">>, <<>>), store)
  ELSE IF ticket_id \notin DOMAIN store
  THEN Outcome(not_found, store)
  ELSE IF Falsy(data)
  THEN Outcome(Response(400, <<"Status is required">>, <<>>), store)
  ELSE IF StatusKeyRaises(data)
  THEN Outcome(internal_error, store)
  ELSE IF StatusKeyMissing(data)
  THEN Outcome(Response(400, <<"Status is required">>, <<>>), store)
  ELSE IF ~ok
  THEN Outcome(Response(500, <<"Failed to update ticket status">>, <<>>), store)
  ELSE LET ticket == [store[ticket_id] EXCEPT
                        !.status = data.status,
                        !.updated_at = t]
       IN  Outcome(Response(200, <<>>, <<to_dict(ticket)>>),
                   [store EXCEPT ![ticket_id] = ticket])

\* update_status that leaves updated_at alone when the ticket already has
\* the status
update_status_same_untouched(store, sess, ticket_id, data, t, ok) ==
  IF ~is_admin(sess)
  THEN Outcome(Response(403, <<"Only admins can update ticket status">>, <<>>), store)
  ELSE IF ticket_id \notin DOMAIN store
  THEN Outcome(not_found, store)
  ELSE IF Falsy(data)
  THEN Outcome(Response(400, <<"Status is required">>, <<>>), store)
  ELSE IF StatusKeyRaises(data)
  THEN Outcome(internal_error, store)
  ELSE IF StatusKeyMissing(data)
  THEN Outcome(Response(400, <<"Status is required">>, <<>>), store)
  ELSE IF data.status \notin Range(valid_statuses)
  THEN Outcome(Response(400, <<"Status must be one of: open, in_progress, closed">>, <<>>), store)
  ELSE IF ~ok
  THEN Outcome(Response(500, <<"Failed to update ticket status">>, <<>>), store)
  ELSE IF store[ticket_id].status = data.status
  THEN Outcome(Response(200, <<>>, <<to_dict(store[ticket_id])>>), store)
  ELSE LET ticket == [store[ticket_id] EXCEPT
                        !.status = data.status,
                        !.updated_at = t]
       IN  Outcome(Response(200, <<>>, <<to_dict(ticket)>>),
                   [store EXCEPT ![ticket_id] = ticket])

\* update_status that refuses to move a closed ticket
update_status_closed_is_final(store, sess, ticket_id, data, t, ok) ==
  IF ~is_admin(sess)
  THEN Outcome(Response(403, <<"Only admins can update ticket status">>, <<>>), store)
  ELSE IF ticket_id \notin DOMAIN store
  THEN Outcome(not_found, store)
  ELSE IF Falsy(data)
  THEN Outcome(Response(400, <<"Status is required">>, <<>>), store)
  ELSE IF StatusKeyRaises(data)
  THEN Outcome(internal_error, store)
  ELSE IF StatusKeyMissing(data)
  THEN Outcome(Response(400, <<"Status is required">>, <<>>), store)
  ELSE IF data.status \notin Range(valid_statuses)
  THEN Outcome(Response(400, <<"Status must be one of: open, in_progress, closed">>, <<>>), store)
  ELSE IF store[ticket_id].status = "closed" /\ data.status # "closed"
  THEN Outcome(Response(400, <<"Ticket is closed">>, <<>>), store)
  ELSE IF ~ok
  THEN Outcome(Response(500, <<"Failed to update ticket status">>, <<>>), store)
  ELSE LET ticket == [store[ticket_id] EXCEPT
                        !.status = data.status,
                        !.updated_at = t]
       IN  Outcome(Response(200, <<>>, <<to_dict(ticket)>>),
                   [store EXCEPT ![ticket_id] = ticket])

\* update_status that reads the body before it looks the ticket up
update_status_body_first(store, sess, ticket_id, data, t, ok) ==
  IF ~is_admin(sess)
  THEN Outcome(Response(403, <<"Only admins can update ticket status">>, <<>>), store)
  ELSE IF Falsy(data)
  THEN Outcome(Response(400, <<"Status is required">>, <<>>), store)
  ELSE IF StatusKeyRaises(data)
  THEN Outcome(internal_error, store)
  ELSE IF StatusKeyMissing(data)
  THEN Outcome(Response(400, <<"Status is required">>, <<>>), store)
  ELSE IF data.status \notin Range(valid_statuses)
  THEN Outcome(Response(400, <<"Status must be one of: open, in_progress, closed">>, <<>>), store)
  ELSE IF ticket_id \notin DOMAIN store
  THEN Outcome(not_found, store)
  ELSE IF ~ok
  THEN Outcome(Response(500, <<"Failed to update ticket status">>, <<>>), store)
  ELSE LET ticket == [store[ticket_id] EXCEPT
                        !.status = data.status,
                        !.updated_at = t]
       IN  Outcome(Response(200, <<>>, <<to_dict(ticket)>>),
                   [store EXCEPT ![ticket_id] = ticket])

\* PATCH /api/tickets/<id>/status
update_status(store, sess, ticket_id, data, t, ok) ==
  IF ~is_admin(sess)
  THEN Outcome(Response(403, <<"Only admins can update ticket status">>, <<>>), store)
  ELSE IF ticket_id \notin DOMAIN store
  THEN Outcome(not_found, store)
  ELSE IF Falsy(data)
  THEN Outcome(Response(400, <<"Status is required">>, <<>>), store)
  ELSE IF StatusKeyRaises(data)
  THEN Outcome(internal_error, store)
  ELSE IF StatusKeyMissing(data)
  THEN Outcome(Response(400, <<"Status is required">>, <<>>), store)
  ELSE IF data.status \notin Range(valid_statuses)
  THEN Outcome(Response(400, <<"Status must be one of: open, in_progress, closed">>, <<>>), store)
  ELSE LET ticket == [store[ticket_id] EXCEPT
                        !.status = data.status,
                        !.updated_at = t]
       IN  IF ~ok
           THEN Outcome(Response(500, <<"Failed to update ticket status">>, <<>>),
                        rollback(store, [store EXCEPT ![ticket_id] = ticket]))
           ELSE Outcome(Response(200, <<>>, <<to_dict(ticket)>>),
                        [store EXCEPT ![ticket_id] = ticket])

\* delete_ticket that answers 200 for an id the table does not hold
delete_ticket_missing_ok(store, ticket_id, ok) ==
  IF ticket_id \notin DOMAIN store
  THEN Outcome(Response(200, <<>>, <<>>), store)
  ELSE IF ~ok
  THEN Outcome(Response(500, <<"Failed to delete ticket">>, <<>>), store)
  ELSE Outcome(Response(200, <<>>, <<>>), Remove(store, ticket_id))

\* DELETE /api/tickets/<id>
delete_ticket(store, ticket_id, ok) ==
  IF ticket_id \notin DOMAIN store
  THEN Outcome(not_found, store)
  ELSE IF ~ok
  THEN Outcome(Response(500, <<"Failed to delete ticket">>, <<>>),
               rollback(store, Remove(store, ticket_id)))
  ELSE Outcome(Response(200, <<>>, <<>>), Remove(store, ticket_id))

\* the sequences that hold each element of S once
Orderings(S) ==
  {s \in [1..Cardinality(S) -> S] : \A i, j \in 1..Cardinality(S) : s[i] = s[j] => i = j}

\* query.filter(...) of get_tickets: an empty filter restricts nothing;
\* a column that is NULL equals no filter value
Matches(t, status_filter, admin_filter) ==
  /\ status_filter = "" \/ t.status = status_filter
  /\ admin_filter = "" \/ (t.assigned_admin # NULL /\ t.assigned_admin = admin_filter)

\* the rows that match, oldest first
Listings_oldest_first(store, status_filter, admin_filter) ==
  LET ids == {i \in DOMAIN store : Matches(store[i], status_filter, admin_filter)}
  IN  {s \in Orderings(ids) :
         \A i, j \in 1..Len(s) :
            i < j => store[s[i]].created_at <= store[s[j]].created_at}

\* order_by(Ticket.created_at.desc()): rows with equal created_at come in
\* an order the query does not fix
Listings(store, status_filter, admin_filter) ==
  LET ids == {i \in DOMAIN store : Matches(store[i], status_filter, admin_filter)}
  IN  {s \in Orderings(ids) :
         \A i, j \in 1..Len(s) :
            i < j => store[s[i]].created_at >= store[s[j]].created_at}

\* GET /api/tickets ; order is the order the rows came in
get_tickets(store, order) ==
  Outcome(Response(200, <<>>, [i \in 1..Len(order) |-> to_dict(store[order[i]])]),
          store)

----------------------------------------------------------------------------
(* POST /set_role: app.py 107-131 *)

\* set_role that refuses a name outside the role's list instead of replacing it
set_role_rejects_mismatch(sess, user_name, user_role) ==
  IF user_role = "Reporter" /\ user_name \in Range(REPORTERS)
  THEN [session |-> [user_name |-> user_name, user_role |-> "Reporter"], flash |-> NoFlash]
  ELSE IF user_role = "Admin" /\ user_name \in Range(ADMINS)
  THEN [session |-> [user_name |-> user_name, user_role |-> "Admin"], flash |-> NoFlash]
  ELSE [session |-> sess, flash |-> "Invalid user or role"]

\* set_role that takes any name for a role it knows
set_role_trusts_name(sess, user_name, user_role) ==
  IF user_role \in {"Reporter", "Admin"}
  THEN [session |-> [user_name |-> user_name, user_role |-> user_role], flash |-> NoFlash]
  ELSE [session |-> sess, flash |-> "Invalid user or role"]

set_role(sess, user_name, user_role) ==
  IF user_role = "Reporter" /\ user_name \in Range(REPORTERS)
  THEN [session |-> [user_name |-> user_name, user_role |-> "Reporter"], flash |-> NoFlash]
  ELSE IF user_role = "Admin" /\ user_name \in Range(ADMINS)
  THEN [session |-> [user_name |-> user_name, user_role |-> "Admin"], flash |-> NoFlash]
  ELSE IF user_role = "Admin"
  THEN [session |-> [user_name |-> "Admin1", user_role |-> "Admin"], flash |-> NoFlash]
  ELSE IF user_role = "Reporter"
  THEN [session |-> [user_name |-> "Alice", user_role |-> "Reporter"], flash |-> NoFlash]
  ELSE [session |-> sess, flash |-> "Invalid user or role"]

----------------------------------------------------------------------------
(* Requests *)

NoData == JsonOther("null")

\* a request; the session it carried is the variable session, which no API
\* request changes
Request(op, ticket_id, data) ==
  [op |-> op, ticket_id |-> ticket_id, data |-> data,
   status_filter |-> "", admin_filter |-> "",
   user_name |-> NULL, user_role |-> NULL]

NoRequest == Request("none", 0, NoData)

NoResponse == Response(0, <<>>, <<>>)

Snapshot(store, sess, t) == [tickets |-> store, session |-> sess, now |-> t]

NoBefore == Snapshot(<<>>, UnsetSession, 0)

\* an assign-self request that is not running
Idle == [pc |-> "idle", sess |-> UnsetSession, ticket_id |-> 0,
         assigned_admin |-> NULL, resp |-> NoResponse, order |-> 0]

Slots == {1, 2}

NoProbe == NoData

Init ==
  /\ tickets = <<>>
  /\ session = UnsetSession
  /\ now = 0
  /\ req = NoRequest
  /\ resp = NoResponse
  /\ before = NoBefore
  /\ inflight = [s \in Slots |-> Idle]
  /\ probe = NoProbe

----------------------------------------------------------------------------
(* Actions.  A request is served from its first line to its response in one *)
(* step; the response then leaves and the next request can be served.       *)

\* the clock advances
Tick ==
  /\ req = NoRequest
  /\ now < MaxTime
  /\ now' = now + 1
  /\ UNCHANGED <<tickets, session, req, resp, before, inflight, probe>>

\* the response is sent
Respond ==
  /\ req # NoRequest
  /\ req' = NoRequest
  /\ resp' = NoResponse
  /\ before' = NoBefore
  /\ UNCHANGED <<tickets, session, now, inflight, probe>>

\* a request arrives and its handler's outcome becomes the store and the response
Serve(request, outcome) ==
  /\ req = NoRequest
  /\ req' = request
  /\ resp' = outcome.resp
  /\ tickets' = outcome.tickets
  /\ before' = Snapshot(tickets, session, now)

SetRole(user_name, user_role) ==
  /\ req = NoRequest
  /\ Serve([Request("set_role", 0, NoData) EXCEPT
              !.user_name = user_name, !.user_role = user_role],
           Outcome([Response(302, <<>>, <<>>) EXCEPT
                      !.flash = set_role(session, user_name, user_role).flash],
                   tickets))
  /\ session' = set_role(session, user_name, user_role).session
  /\ UNCHANGED <<now, inflight, probe>>

\* a commit can only fail where the handler reaches db.session.commit()
CommitReached(outcome) == outcome.resp.code \in {200, 201}

\* later: the clock when the INSERT takes updated_at's default, after created_at's
CreateTicket(data, later, ok) ==
  /\ req = NoRequest
  /\ later \in now..MaxTime
  /\ ok \/ CommitReached(create_ticket(tickets, session, data, now, later, TRUE))
  /\ LET outcome == create_ticket(tickets, session, data, now, later, ok)
     IN  /\ Serve(Request("create", 0, data), outcome)
         /\ now' = IF outcome.resp.code = 201 THEN later ELSE now
  /\ UNCHANGED <<session, inflight, probe>>

AssignSelf(ticket_id, ok) ==
  /\ req = NoRequest
  /\ ok \/ CommitReached(assign_self(tickets, session, ticket_id, now, TRUE))
  /\ Serve(Request("assign_self", ticket_id, NoData),
           assign_self(tickets, session, ticket_id, now, ok))
  /\ UNCHANGED <<session, now, inflight, probe>>

UpdateStatus(ticket_id, data, ok) ==
  /\ req = NoRequest
  /\ ok \/ CommitReached(update_status(tickets, session, ticket_id, data, now, TRUE))
  /\ Serve(Request("update_status", ticket_id, data),
           update_status(tickets, session, ticket_id, data, now, ok))
  /\ UNCHANGED <<session, now, inflight, probe>>

DeleteTicket(ticket_id, ok) ==
  /\ req = NoRequest
  /\ ok \/ CommitReached(delete_ticket(tickets, ticket_id, TRUE))
  /\ Serve(Request("delete", ticket_id, NoData),
           delete_ticket(tickets, ticket_id, ok))
  /\ UNCHANGED <<session, now, inflight, probe>>

GetTickets(status_filter, admin_filter) ==
  /\ req = NoRequest
  /\ \E order \in Listings(tickets, status_filter, admin_filter) :
       Serve([Request("list", 0, NoData) EXCEPT
                !.status_filter = status_filter, !.admin_filter = admin_filter],
             get_tickets(tickets, order))
  /\ UNCHANGED <<session, now, inflight, probe>>

----------------------------------------------------------------------------
(* Assign-self requests running side by side: app.py 179-198.  Each request *)
(* has its own database session: what it loaded stays as loaded until it    *)
(* commits, and its UPDATE writes the two columns it set.                   *)

\* lines 182-185: the role check, then Ticket.query.get_or_404
AssignBegin(slot, ticket_id) ==
  /\ req = NoRequest
  /\ inflight[slot].pc = "idle"
  /\ inflight' = [inflight EXCEPT ![slot] =
       IF ~is_admin(session)
       THEN [Idle EXCEPT !.pc = "done", !.sess = session, !.ticket_id = ticket_id,
               !.resp = Response(403, <<"Only admins can assign tickets">>, <<>>)]
       ELSE IF ticket_id \notin DOMAIN tickets
       THEN [Idle EXCEPT !.pc = "done", !.sess = session, !.ticket_id = ticket_id,
               !.resp = not_found]
       ELSE [Idle EXCEPT !.pc = "loaded", !.sess = session, !.ticket_id = ticket_id,
               !.assigned_admin = tickets[ticket_id].assigned_admin]]
  /\ UNCHANGED <<tickets, session, now, req, resp, before, probe>>

\* how many of the requests in flight have committed
Committed == Cardinality({s \in Slots : inflight[s].order > 0})

\* an UPDATE that only writes a row whose assigned_admin is still NULL
UpdateAssignedIfNull(store, ticket_id, name, t) ==
  IF store[ticket_id].assigned_admin = NULL
  THEN [store EXCEPT ![ticket_id] =
          [store[ticket_id] EXCEPT !.assigned_admin = name, !.updated_at = t]]
  ELSE store

\* UPDATE ticket SET assigned_admin=?, updated_at=? WHERE id=?
UpdateAssigned(store, ticket_id, name, t) ==
  [store EXCEPT ![ticket_id] =
     [store[ticket_id] EXCEPT !.assigned_admin = name, !.updated_at = t]]

\* lines 187-198: the check on the loaded row, then the write and the commit;
\* an UPDATE that matches no row (the ticket was deleted meanwhile) raises and
\* is rolled back like a failed commit
AssignCommit(slot, ok) ==
  /\ req = NoRequest
  /\ inflight[slot].pc = "loaded"
  /\ LET r == inflight[slot]
         name == current_user(r.sess).name
     IN  IF r.assigned_admin # NULL
         THEN /\ ok
              /\ inflight' = [inflight EXCEPT ![slot] =
                   [r EXCEPT !.pc = "done",
                      !.resp = Response(400, <<"Ticket is already assigned">>, <<>>)]]
              /\ UNCHANGED tickets
         ELSE IF ~ok \/ r.ticket_id \notin DOMAIN tickets
         THEN /\ inflight' = [inflight EXCEPT ![slot] =
                   [r EXCEPT !.pc = "done",
                      !.resp = Response(500, <<"Failed to assign ticket">>, <<>>)]]
              /\ UNCHANGED tickets
         ELSE /\ tickets' = UpdateAssigned(tickets, r.ticket_id, name, now)
              /\ inflight' = [inflight EXCEPT ![slot] =
                   [r EXCEPT !.pc = "done", !.order = Committed + 1,
                      !.resp = Response(200, <<>>,
                                 <<to_dict(UpdateAssigned(tickets, r.ticket_id, name, now)[r.ticket_id])>>)]]
  /\ UNCHANGED <<session, now, req, resp, before, probe>>

\* both responses have been sent
AssignRespond ==
  /\ \A s \in Slots : inflight[s].pc = "done"
  /\ inflight' = [s \in Slots |-> Idle]
  /\ UNCHANGED <<tickets, session, now, req, resp, before, probe>>

----------------------------------------------------------------------------
(* Inputs *)

Ids == 1..MaxId

IdsFew == 1..MaxIdFew

\* the next INSERT gets an id within the cap
Room(cap) == NewId(tickets) <= cap

\* a largest valid ticket, padded with blanks
ValidBody ==
  JsonObject(Str(MaxPad, TITLE_MAX, 0), Str(0, DESC_MAX, MaxPad), "high", MISSING)

Pads == {0, MaxPad}

\* titles and descriptions around the limits, padded or not, and what is no string
TitleInputs ==
  {Str(l, c, t) : l \in Pads, t \in Pads,
                  c \in {0, TITLE_MIN - 1, TITLE_MIN, TITLE_MAX, TITLE_MAX + 1}}
    \cup {NonStr("missing"), NonStr("number")}

DescriptionInputs ==
  {Str(l, c, t) : l \in Pads, t \in Pads,
                  c \in {0, DESC_MIN, DESC_MAX, DESC_MAX + 1}}
    \cup {NonStr("missing"), NonStr("number")}

PriorityInputs == Range(valid_priorities) \cup {"urgent", "High", "", NUMBER, MISSING}

\* the bodies of Spec: ValidBody, what is no object, and ValidBody with one
\* field that fails
CreateBodies ==
  { JsonOther("null"), JsonOther("number"), ValidBody,
    [ValidBody EXCEPT !.title = Str(0, TITLE_MIN - 1, 0)],
    [ValidBody EXCEPT !.title = NonStr("number")],
    [ValidBody EXCEPT !.description = Str(MaxPad, 0, 0)],
    [ValidBody EXCEPT !.priority = "urgent"],
    [ValidBody EXCEPT !.priority = MISSING] }

\* the bodies of SpecValidate
ProbeBodies ==
  {JsonObject(t, d, p, MISSING) :
     t \in TitleInputs, d \in DescriptionInputs, p \in PriorityInputs}

StatusBody(status) == JsonObject(NonStr("missing"), NonStr("missing"), MISSING, status)

StatusBodies ==
  { JsonOther("null"), JsonOther("number") }
    \cup { StatusBody(s) : s \in Range(valid_statuses) \cup {"done", MISSING} }

FormNames == Range(REPORTERS) \cup Range(ADMINS) \cup {"Mallory", NULL}

FormRoles == {"Reporter", "Admin", "Guest"}

StatusFilters == {"", "open", "done"}

AdminFilters == {"", "Admin1"}

----------------------------------------------------------------------------
(* Spec: requests served one at a time, all at one reading of the clock *)

Next ==
  \/ \E user_name \in FormNames, user_role \in FormRoles : SetRole(user_name, user_role)
  \/ \E data \in CreateBodies, ok \in BOOLEAN : Room(MaxId) /\ CreateTicket(data, now, ok)
  \/ \E ticket_id \in Ids, ok \in BOOLEAN : AssignSelf(ticket_id, ok)
  \/ \E ticket_id \in Ids, data \in StatusBodies, ok \in BOOLEAN :
       UpdateStatus(ticket_id, data, ok)
  \/ \E ticket_id \in Ids, ok \in BOOLEAN : DeleteTicket(ticket_id, ok)
  \/ \E status_filter \in StatusFilters, admin_filter \in AdminFilters :
       GetTickets(status_filter, admin_filter)
  \/ Respond

Spec == Init /\ [][Next]_vars

----------------------------------------------------------------------------
(* SpecClock: requests served one at a time while the clock advances; one   *)
(* reporter, both admins                                                    *)

ClockFormNames == {"Admin1", "Admin2", "Mallory"}

ClockFormRoles == {"Reporter", "Admin"}

ClockStatusBodies ==
  { JsonOther("null"), JsonOther("number"), JsonOther("array") }
    \cup { StatusBody(s) : s \in {"open", "closed", "done", NUMBER, MISSING} }

NextClock ==
  \/ Tick
  \/ \E user_name \in ClockFormNames, user_role \in ClockFormRoles :
       SetRole(user_name, user_role)
  \/ \E later \in {now, now + 1}, ok \in BOOLEAN :
       Room(MaxIdFew) /\ CreateTicket(ValidBody, later, ok)
  \/ \E ticket_id \in IdsFew, ok \in BOOLEAN : AssignSelf(ticket_id, ok)
  \/ \E ticket_id \in IdsFew, data \in ClockStatusBodies, ok \in BOOLEAN :
       UpdateStatus(ticket_id, data, ok)
  \/ \E ticket_id \in IdsFew, ok \in BOOLEAN : DeleteTicket(ticket_id, ok)
  \/ Respond

SpecClock == Init /\ [][NextClock]_vars

----------------------------------------------------------------------------
(* SpecValidate: one body, drawn at the start, sent again and again by      *)
(* callers of either role                                                   *)

InitValidate ==
  /\ tickets = <<>>
  /\ session = UnsetSession
  /\ now = 0
  /\ req = NoRequest
  /\ resp = NoResponse
  /\ before = NoBefore
  /\ inflight = [s \in Slots |-> Idle]
  /\ probe \in ProbeBodies

NextValidate ==
  \/ \E user_name \in {"Bob", "Admin1"}, user_role \in {"Reporter", "Admin"} :
       SetRole(user_name, user_role)
  \/ \E ok \in BOOLEAN : Room(MaxId) /\ CreateTicket(probe, now, ok)
  \/ Respond

SpecValidate == InitValidate /\ [][NextValidate]_vars

----------------------------------------------------------------------------
(* SpecRace: assign-self requests interleave with each other and with       *)
(* requests served in one step                                              *)

NextRace ==
  \/ \E user_name \in Range(ADMINS), user_role \in {"Reporter", "Admin"} :
       SetRole(user_name, user_role)
  \/ Room(MaxIdFew) /\ CreateTicket(ValidBody, now, TRUE)
  \/ \E ticket_id \in IdsFew : DeleteTicket(ticket_id, TRUE)
  \/ Respond
  \/ \E slot \in Slots, ticket_id \in IdsFew : AssignBegin(slot, ticket_id)
  \/ \E slot \in Slots, ok \in BOOLEAN : AssignCommit(slot, ok)
  \/ AssignRespond

SpecRace == Init /\ [][NextRace]_vars

----------------------------------------------------------------------------
(* SpecIdentity: set_role with any form values, between creates, assigns    *)
(* and deletes whose commits succeed                                        *)

\* the names of both lists, names of neither, an empty and an absent field
IdentityNames == FormNames \cup {"alice", ""}

\* both roles, what is neither, an empty and an absent field
IdentityRoles == FormRoles \cup {"admin", "", NULL}

NextIdentity ==
  \/ \E user_name \in IdentityNames, user_role \in IdentityRoles :
       SetRole(user_name, user_role)
  \/ Room(MaxIdFew) /\ CreateTicket(ValidBody, now, TRUE)
  \/ \E ticket_id \in IdsFew : AssignSelf(ticket_id, TRUE)
  \/ \E ticket_id \in IdsFew : DeleteTicket(ticket_id, TRUE)
  \/ Respond

SpecIdentity == Init /\ [][NextIdentity]_vars

----------------------------------------------------------------------------
(* SpecHistory: tickets created at different readings of the clock, by one  *)
(* reporter and one admin whose commits succeed, and listed under filters   *)

HistoryStatusBodies == { StatusBody(s) : s \in {"open", "closed"} }

\* no filter, a status and an admin tickets have, and ones no ticket has
HistoryStatusFilters == {"", "closed", "done"}

HistoryAdminFilters == {"", "Admin1", "Admin2"}

NextHistory ==
  \/ Tick
  \/ SetRole("Alice", "Reporter")
  \/ SetRole("Admin1", "Admin")
  \/ Room(MaxId) /\ CreateTicket(ValidBody, now, TRUE)
  \/ \E ticket_id \in Ids : AssignSelf(ticket_id, TRUE)
  \/ \E ticket_id \in Ids, data \in HistoryStatusBodies :
       UpdateStatus(ticket_id, data, TRUE)
  \/ \E ticket_id \in Ids : DeleteTicket(ticket_id, TRUE)
  \/ \E status_filter \in HistoryStatusFilters, admin_filter \in HistoryAdminFilters :
       GetTickets(status_filter, admin_filter)
  \/ Respond

SpecHistory == Init /\ [][NextHistory]_vars

----------------------------------------------------------------------------
(* Properties.  While a request is being answered, before holds the table,  *)
(* the session and the clock the request found, req the request and resp    *)
(* its response; tickets is the table the request left.                     *)

\* the caller of the request being answered
Caller == current_user(before.session)

\* the request being answered names a ticket that was in the table
OnExisting == req.ticket_id \in DOMAIN before.tickets

\* C1: with requests served one at a time, a ticket's assigned_admin only
\* changes from null to the name of an admin; once it holds a name, no
\* request changes it while the ticket is in the table.
C1_AssignedOnce ==
  \A id \in DOMAIN before.tickets \cap DOMAIN tickets :
    IF before.tickets[id].assigned_admin = NULL
    THEN tickets[id].assigned_admin \in {NULL} \cup Range(ADMINS)
    ELSE tickets[id].assigned_admin = before.tickets[id].assigned_admin

\* another admin's assign-self on a ticket Admin1 holds has been answered
C1_Witness ==
  /\ req.op = "assign_self"
  /\ OnExisting
  /\ before.tickets[req.ticket_id].assigned_admin = "Admin1"
  /\ Caller = [name |-> "Admin2", role |-> "Admin"]
  /\ tickets[req.ticket_id].assigned_admin = "Admin1"

\* C2: assign-self and status update by a caller who is no admin are
\* answered 403, whatever the id and the body, and leave the table as it was.
C2_NonAdminRefused ==
  (req.op \in {"assign_self", "update_status"} /\ Caller.role # "Admin")
    => (resp.code = 403 /\ tickets = before.tickets)

\* a reporter's valid status update of a ticket in the table has been answered
C2_Witness ==
  /\ req.op = "update_status"
  /\ Caller.role = "Reporter"
  /\ OnExisting
  /\ req.data = StatusBody("closed")
  /\ resp.code = 403

\* C3: create by a caller who is no reporter is answered 403, whatever the
\* body, and leaves the table as it was.
C3_NonReporterRefused ==
  (req.op = "create" /\ Caller.role # "Reporter")
    => (resp.code = 403 /\ tickets = before.tickets)

\* an admin's create with a valid body and one with an invalid body
C3_Witness ==
  /\ req.op = "create"
  /\ Caller.role = "Admin"
  /\ req.data = [ValidBody EXCEPT !.priority = "urgent"]
  /\ resp.code = 403

\* C5 (as claimed): every stored title is 3 to 120 characters long and every
\* stored description 1 to 1000.
C5_StoredLengths ==
  \A id \in DOMAIN tickets :
    /\ StrLen(tickets[id].title) >= TITLE_MIN
    /\ StrLen(tickets[id].title) <= TITLE_MAX
    /\ StrLen(tickets[id].description) >= DESC_MIN
    /\ StrLen(tickets[id].description) <= DESC_MAX

\* C7: a create answered 201 has added one ticket whose reporter_name is the
\* caller's name, whose assigned_admin is null and whose status is open; the
\* response reports that ticket, and a list without filters reports every
\* stored ticket with the reporter_name, assigned_admin and status it has.
C7_CreatedTicket ==
  /\ (req.op = "create" /\ resp.code = 201) =>
       \E id \in DOMAIN tickets \ DOMAIN before.tickets :
         /\ DOMAIN tickets = DOMAIN before.tickets \cup {id}
         /\ \A other \in DOMAIN before.tickets : tickets[other] = before.tickets[other]
         /\ tickets[id].reporter_name = Caller.name
         /\ tickets[id].assigned_admin = NULL
         /\ tickets[id].status = "open"
         /\ Len(resp.body) = 1
         /\ resp.body[1].id = id
         /\ resp.body[1].reporter_name = Caller.name
         /\ resp.body[1].assigned_admin = NULL
         /\ resp.body[1].status = "open"
  /\ (req.op = "list" /\ req.status_filter = "" /\ req.admin_filter = "") =>
       /\ Len(resp.body) = Cardinality(DOMAIN tickets)
       /\ \A id \in DOMAIN tickets :
            \E k \in 1..Len(resp.body) :
              /\ resp.body[k].id = id
              /\ resp.body[k].reporter_name = tickets[id].reporter_name
              /\ resp.body[k].assigned_admin = tickets[id].assigned_admin
              /\ resp.body[k].status = tickets[id].status

\* Bob's create has been answered 201 in a table that held a ticket
C7_Witness ==
  /\ req.op = "create"
  /\ resp.code = 201
  /\ Caller.name = "Bob"
  /\ before.tickets # <<>>

\* C8: every stored ticket's priority is low, medium or high and its status
\* open, in_progress or closed.
C8_Enumerations ==
  \A id \in DOMAIN tickets :
    /\ tickets[id].priority \in {"low", "medium", "high"}
    /\ tickets[id].status \in {"open", "in_progress", "closed"}

\* an admin's update of a stored ticket to a status outside the enumeration,
\* and a reporter's create with a priority outside it, have been refused
C8_Witness ==
  /\ req.op = "update_status"
  /\ Caller.role = "Admin"
  /\ OnExisting
  /\ req.data = StatusBody("done")
  /\ resp.code = 400
  /\ tickets # <<>>

\* the name an in-flight assign-self writes
Writer(slot) == current_user(inflight[slot].sess).name

\* C4: when two assign-self requests on one ticket have both loaded it with
\* assigned_admin null before either committed, the one that commits second
\* passes the already-assigned check like the first, both are answered 200,
\* and the ticket holds the second writer's name.
C4_BothAssign ==
  [][\A s, o \in Slots :
       ( /\ s # o
         /\ inflight[o].pc = "done"
         /\ inflight[o].order > 0
         /\ inflight[o].assigned_admin = NULL
         /\ inflight[s].pc = "loaded"
         /\ inflight[s].assigned_admin = NULL
         /\ inflight[s].ticket_id = inflight[o].ticket_id
         /\ inflight'[s].pc = "done"
         /\ inflight'[s].resp.code # 500 )
       => /\ inflight[o].resp.code = 200
          /\ inflight'[s].resp.code = 200
          /\ inflight'[s].resp.body[1].assigned_admin = Writer(s)
          /\ tickets'[inflight[s].ticket_id].assigned_admin = Writer(s)]_vars

\* Admin1's and Admin2's assign-self on ticket 1 were both answered 200, Admin1
\* committed first, and the ticket holds Admin2
C4_Witness ==
  \E s, o \in Slots :
    /\ inflight[o].pc = "done" /\ inflight[s].pc = "done"
    /\ inflight[o].ticket_id = 1 /\ inflight[s].ticket_id = 1
    /\ Writer(o) = "Admin1" /\ Writer(s) = "Admin2"
    /\ inflight[o].order = 1 /\ inflight[s].order = 2
    /\ inflight[o].resp.code = 200 /\ inflight[s].resp.code = 200
    /\ inflight[o].resp.body[1].assigned_admin = "Admin1"
    /\ 1 \in DOMAIN tickets
    /\ tickets[1].assigned_admin = "Admin2"

\* C6: the number of characters of a text value between its first and its
\* last non-blank character; 0 for an absent key
TrimmedLength(v) == IF v.kind = "string" THEN v.core ELSE 0

TitleFails(data) ==
  TrimmedLength(data.title) < 3 \/ TrimmedLength(data.title) > 120

DescriptionFails(data) ==
  TrimmedLength(data.description) = 0 \/ TrimmedLength(data.description) > 1000

PriorityFails(data) == data.priority \notin {"low", "medium", "high"}

TitleMessages ==
  {"Title is required", "Title must be between 3 and 120 characters"}

DescriptionMessages ==
  {"Description is required", "Description must be between 1 and 1000 characters"}

PriorityMessages == {"Priority must be one of: low, medium, high"}

\* how many of the messages are among msgs
Count(errors, msgs) == Cardinality({k \in 1..Len(errors) : errors[k] \in msgs})

OneIf(b) == IF b THEN 1 ELSE 0

\* a JSON object whose title and description are strings or absent
TextFields(data) ==
  /\ data.kind = "object"
  /\ data.title.kind \in {"string", "missing"}
  /\ data.description.kind \in {"string", "missing"}

\* C6: for a body whose text fields are strings or absent, validate_ticket_data
\* returns one message for each field that fails and none for a field that
\* passes (title: trimmed length below 3 or above 120; description: trimmed
\* length 0 or above 1000; priority: absent or not low, medium or high), and a
\* reporter's create is answered 400, with that list, iff the list is not empty.
C6_Validation ==
  TextFields(probe) =>
    LET errors == validate_ticket_data(probe)
    IN  /\ Count(errors, TitleMessages) = OneIf(TitleFails(probe))
        /\ Count(errors, DescriptionMessages) = OneIf(DescriptionFails(probe))
        /\ Count(errors, PriorityMessages) = OneIf(PriorityFails(probe))
        /\ Len(errors) = OneIf(TitleFails(probe)) + OneIf(DescriptionFails(probe))
                           + OneIf(PriorityFails(probe))
        /\ (req.op = "create" /\ Caller.role = "Reporter") =>
             /\ resp.code = 400 <=> errors # <<>>
             /\ resp.code = 400 => resp.errors = errors

\* a reporter's create whose title is 121 characters long once trimmed, whose
\* description is 1001 and whose priority is urgent was answered 400 with
\* three messages
C6_Witness ==
  /\ req.op = "create"
  /\ req.data = probe
  /\ Caller.role = "Reporter"
  /\ TrimmedLength(probe.title) = 121
  /\ TrimmedLength(probe.description) = 1001
  /\ probe.priority = "urgent"
  /\ resp.code = 400
  /\ Len(resp.errors) = 3

\* C9: an admin's assign-self on a stored ticket whose assigned_admin is not
\* null is answered 400 and leaves every field of the ticket, updated_at
\* included, as it was.
C9_AlreadyAssigned ==
  ( /\ req.op = "assign_self"
    /\ Caller.role = "Admin"
    /\ OnExisting
    /\ before.tickets[req.ticket_id].assigned_admin # NULL )
  => /\ resp.code = 400
     /\ tickets = before.tickets

\* Admin2's assign-self on a ticket Admin1 holds was answered 400 at a clock
\* reading later than the ticket's updated_at
C9_Witness ==
  /\ req.op = "assign_self"
  /\ Caller = [name |-> "Admin2", role |-> "Admin"]
  /\ OnExisting
  /\ before.tickets[req.ticket_id].assigned_admin = "Admin1"
  /\ before.now > before.tickets[req.ticket_id].updated_at
  /\ resp.code = 400

\* the body holds no status
NoStatus(data) == data.kind # "object" \/ data.status = MISSING

\* C10 (as claimed): an admin's status update of a stored ticket whose body
\* holds no status, or one that is not open, in_progress or closed, is
\* answered 400 and leaves the ticket's status and updated_at as they were.
C10_InvalidStatusRefused ==
  ( /\ req.op = "update_status"
    /\ Caller.role = "Admin"
    /\ OnExisting
    /\ (NoStatus(req.data) \/ req.data.status \notin {"open", "in_progress", "closed"}) )
  => /\ resp.code = 400
     /\ tickets[req.ticket_id].status = before.tickets[req.ticket_id].status
     /\ tickets[req.ticket_id].updated_at = before.tickets[req.ticket_id].updated_at

\* C11: when the commit of a create, an assign-self, a status update or a
\* delete fails, the request is answered 500 and the table is exactly what it
\* was before the request: no ticket added or removed, no field changed.
C11_FailedCommitRollsBack ==
  [][( \/ req'.op = "create" /\ CreateTicket(req'.data, now, FALSE)
       \/ req'.op = "assign_self" /\ AssignSelf(req'.ticket_id, FALSE)
       \/ req'.op = "update_status"
            /\ UpdateStatus(req'.ticket_id, req'.data, FALSE)
       \/ req'.op = "delete" /\ DeleteTicket(req'.ticket_id, FALSE) )
     => (resp'.code = 500 /\ tickets' = tickets)]_vars

\* an admin's update of an open stored ticket to closed failed at the commit:
\* it was answered 500 and the ticket is still open with its updated_at
C11_Witness ==
  /\ req.op = "update_status"
  /\ req.data = StatusBody("closed")
  /\ OnExisting
  /\ before.tickets[req.ticket_id].status = "open"
  /\ resp = Response(500, <<"Failed to update ticket status">>, <<>>)
  /\ tickets[req.ticket_id] = before.tickets[req.ticket_id]

\* the ids a list response reports
Listed(body) == {body[k].id : k \in 1..Len(body)}

\* C12: a delete, by a caller of either role, of an id the table does not hold
\* is answered 404 and leaves the table as it was; a delete of an id the table
\* holds whose commit succeeds is answered 200 and removes that ticket and no
\* other: every list of the table it leaves, under any filters, omits the id,
\* and every other ticket is as it was.  A list reports stored tickets only.
C12_Delete ==
  /\ (req.op = "delete" /\ ~OnExisting) =>
       (resp.code = 404 /\ tickets = before.tickets)
  /\ (req.op = "delete" /\ OnExisting) => resp.code \in {200, 500}
  /\ (req.op = "delete" /\ OnExisting /\ resp.code = 200) =>
       /\ DOMAIN tickets = DOMAIN before.tickets \ {req.ticket_id}
       /\ \A other \in DOMAIN tickets : tickets[other] = before.tickets[other]
       /\ \A status_filter \in StatusFilters, admin_filter \in AdminFilters :
            \A order \in Listings(tickets, status_filter, admin_filter) :
              req.ticket_id \notin Listed(get_tickets(tickets, order).resp.body)
  /\ req.op = "list" => Listed(resp.body) \subseteq DOMAIN tickets

\* Alice, a reporter, deleted Bob's ticket, which Admin1 held, from a table of
\* two tickets
C12_Witness ==
  /\ req.op = "delete"
  /\ resp.code = 200
  /\ Caller = [name |-> "Alice", role |-> "Reporter"]
  /\ OnExisting
  /\ before.tickets[req.ticket_id].reporter_name = "Bob"
  /\ before.tickets[req.ticket_id].assigned_admin = "Admin1"
  /\ Cardinality(DOMAIN before.tickets) = 2
  /\ Cardinality(DOMAIN tickets) = 1

\* C13: set_role(name, role) with role Reporter or Admin and name in that
\* role's list makes the session (name, role); with role Reporter or Admin and
\* name outside that role's list it makes the session the role's default
\* identity, Alice/Reporter or Admin1/Admin, and reports no error; with any
\* other role it reports a failure and leaves both session values as they were.
C13_SetRole ==
  req.op = "set_role" =>
    LET name == req.user_name
        role == req.user_role
        listed == IF role = "Reporter" THEN {"Alice", "Bob"} ELSE {"Admin1", "Admin2"}
        default == IF role = "Reporter" THEN "Alice" ELSE "Admin1"
    IN  IF role \in {"Reporter", "Admin"}
        THEN /\ session = [user_name |-> IF name \in listed THEN name ELSE default,
                           user_role |-> role]
             /\ resp.flash = NoFlash
        ELSE /\ session = before.session
             /\ resp.flash = "Invalid user or role"

\* set_role('Alice', 'Admin') by Bob, a reporter, made the session Admin1/Admin
C13_Witness ==
  /\ req.op = "set_role"
  /\ req.user_name = "Alice"
  /\ req.user_role = "Admin"
  /\ before.session = [user_name |-> "Bob", user_role |-> "Reporter"]
  /\ session = [user_name |-> "Admin1", user_role |-> "Admin"]
  /\ resp.flash = NoFlash

\* C14: while the clock never goes back, every stored ticket's updated_at is
\* at or after its created_at; an assign-self or a status update answered 200,
\* a status update to the status the ticket already has included, sets the
\* ticket's updated_at to the clock at that request; and no request moves a
\* stored ticket's updated_at back.
C14_Timestamps ==
  /\ \A id \in DOMAIN tickets : tickets[id].updated_at >= tickets[id].created_at
  /\ (req.op \in {"assign_self", "update_status"} /\ resp.code = 200) =>
       /\ tickets[req.ticket_id].updated_at = before.now
       /\ resp.body[1].updated_at = isoformat(before.now)
  /\ req # NoRequest =>
       \A id \in DOMAIN before.tickets \cap DOMAIN tickets :
         tickets[id].updated_at >= before.tickets[id].updated_at

\* a status update to closed of a ticket that was closed already was answered
\* 200 at a clock reading later than the ticket's updated_at
C14_Witness ==
  /\ req.op = "update_status"
  /\ resp.code = 200
  /\ req.data = StatusBody("closed")
  /\ before.tickets[req.ticket_id].status = "closed"
  /\ before.now > before.tickets[req.ticket_id].updated_at
  /\ tickets[req.ticket_id].updated_at = before.now
  /\ tickets[req.ticket_id].created_at < before.now

\* every ticket but the one the request names is as the request found it
OthersUntouched ==
  /\ DOMAIN tickets = DOMAIN before.tickets
  /\ \A other \in DOMAIN tickets \ {req.ticket_id} :
       tickets[other] = before.tickets[other]

\* C15: no request changes the id, title, description, priority,
\* reporter_name or created_at of a ticket that is in the table before and
\* after it; an assign-self answered 200 leaves the ticket's status as it was,
\* a status update answered 200 leaves its assigned_admin as it was, and each
\* of the two leaves every other ticket as it was.
C15_Frame ==
  /\ req # NoRequest =>
       \A id \in DOMAIN before.tickets \cap DOMAIN tickets :
         /\ tickets[id].id = id
         /\ tickets[id].id = before.tickets[id].id
         /\ tickets[id].title = before.tickets[id].title
         /\ tickets[id].description = before.tickets[id].description
         /\ tickets[id].priority = before.tickets[id].priority
         /\ tickets[id].reporter_name = before.tickets[id].reporter_name
         /\ tickets[id].created_at = before.tickets[id].created_at
  /\ (req.op = "assign_self" /\ resp.code = 200) =>
       /\ tickets[req.ticket_id].status = before.tickets[req.ticket_id].status
       /\ OthersUntouched
  /\ (req.op = "update_status" /\ resp.code = 200) =>
       /\ tickets[req.ticket_id].assigned_admin
            = before.tickets[req.ticket_id].assigned_admin
       /\ OthersUntouched

\* an assign-self on a closed ticket was answered 200, after the ticket's
\* creation, in a table that holds another ticket
C15_Witness ==
  /\ req.op = "assign_self"
  /\ resp.code = 200
  /\ before.tickets[req.ticket_id].status = "closed"
  /\ before.tickets[req.ticket_id].created_at < before.now
  /\ tickets[req.ticket_id].assigned_admin = "Admin1"
  /\ Cardinality(DOMAIN tickets) = 2

\* the ids of the stored tickets a list with these filters is to report
Wanted(store, status_filter, admin_filter) ==
  {id \in DOMAIN store :
     /\ status_filter # "" => store[id].status = status_filter
     /\ admin_filter # "" => store[id].assigned_admin = admin_filter}

\* C16: a list, for a caller of any role, is answered 200 with exactly the
\* stored tickets whose status equals the status filter when that is not
\* empty and whose assigned_admin equals the admin filter when that is not
\* empty, each once and as stored, the newer created_at first; filters no
\* ticket matches give an empty list.
C16_List ==
  req.op = "list" =>
    LET wanted == Wanted(tickets, req.status_filter, req.admin_filter)
    IN  /\ resp.code = 200
        /\ resp.errors = <<>>
        /\ tickets = before.tickets
        /\ Listed(resp.body) = wanted
        /\ Len(resp.body) = Cardinality(wanted)
        /\ \A k \in 1..Len(resp.body) : resp.body[k] = to_dict(tickets[resp.body[k].id])
        /\ \A i, j \in 1..Len(resp.body) :
             i < j => tickets[resp.body[i].id].created_at
                        >= tickets[resp.body[j].id].created_at

\* a reporter's list with the filters closed and Admin1 reported one of the
\* two stored tickets
C16_Witness ==
  /\ req.op = "list"
  /\ Caller.role = "Reporter"
  /\ req.status_filter = "closed"
  /\ req.admin_filter = "Admin1"
  /\ Cardinality(DOMAIN tickets) = 2
  /\ Len(resp.body) = 1
  /\ resp.body[1].status = "closed"
  /\ resp.body[1].assigned_admin = "Admin1"

\* C17: a status update by an admin, of a stored ticket, to open, in_progress
\* or closed, whose commit succeeds, is answered 200 and leaves the ticket
\* with that status, whatever status the ticket had (the same one and closed
\* included) and whoever holds it (the caller, another admin or nobody).
C17_AnyTransition ==
  [][( /\ req'.op = "update_status"
       /\ current_user(session).role = "Admin"
       /\ req'.ticket_id \in DOMAIN tickets
       /\ \E status \in {"open", "in_progress", "closed"} :
            req'.data = StatusBody(status)
       /\ UpdateStatus(req'.ticket_id, req'.data, TRUE) )
     => /\ resp'.code = 200
        /\ resp'.body[1].status = req'.data.status
        /\ tickets'[req'.ticket_id].status = req'.data.status]_vars

\* Admin2 moved a closed ticket that Admin1 holds back to open
C17_Witness ==
  /\ req.op = "update_status"
  /\ Caller = [name |-> "Admin2", role |-> "Admin"]
  /\ OnExisting
  /\ before.tickets[req.ticket_id].status = "closed"
  /\ before.tickets[req.ticket_id].assigned_admin = "Admin1"
  /\ req.data = StatusBody("open")
  /\ resp.code = 200
  /\ tickets[req.ticket_id].status = "open"

\* C18: from an empty session, whatever set_role is called with, the identity
\* current_user resolves is a reporter named Alice or Bob or an admin named
\* Admin1 or Admin2; so every stored ticket's reporter_name is Alice or Bob
\* and its assigned_admin null, Admin1 or Admin2.
C18_ConsistentIdentity ==
  LET user == current_user(session)
  IN  /\ user.role \in {"Reporter", "Admin"}
      /\ user.role = "Reporter" => user.name \in {"Alice", "Bob"}
      /\ user.role = "Admin" => user.name \in {"Admin1", "Admin2"}
      /\ \A id \in DOMAIN tickets :
           /\ tickets[id].reporter_name \in {"Alice", "Bob"}
           /\ tickets[id].assigned_admin \in {NULL, "Admin1", "Admin2"}
      /\ (req.op = "assign_self" /\ resp.code = 200) =>
           tickets[req.ticket_id].assigned_admin \in {"Admin1", "Admin2"}

\* set_role('Mallory', 'Admin') was answered while the table holds a ticket
\* Bob reported and Admin2 took
C18_Witness ==
  /\ req.op = "set_role"
  /\ req.user_name = "Mallory"
  /\ req.user_role = "Admin"
  /\ before.session = [user_name |-> "Admin2", user_role |-> "Admin"]
  /\ current_user(session) = [name |-> "Admin1", role |-> "Admin"]
  /\ \E id \in DOMAIN tickets :
       /\ tickets[id].reporter_name = "Bob"
       /\ tickets[id].assigned_admin = "Admin2"

\* C19: the checks that refuse a request come in a fixed order and before
\* any write.  Assign-self and status update: a caller who is no admin is
\* answered 403, also for an id the table does not hold; an admin naming an
\* id the table does not hold is answered 404, whatever the body; so a 400
\* is only given to an admin naming a stored ticket.  Create: a caller who is
\* no reporter is answered 403, whatever the body; so a 400 is only given to a
\* reporter.  A request answered 400, 403 or 404 leaves the table as it was.
C19_Precedence ==
  /\ req.op \in {"assign_self", "update_status"} =>
       /\ Caller.role # "Admin" => resp.code = 403
       /\ (Caller.role = "Admin" /\ ~OnExisting) => resp.code = 404
       /\ resp.code = 400 => (Caller.role = "Admin" /\ OnExisting)
  /\ req.op = "create" =>
       /\ Caller.role # "Reporter" => resp.code = 403
       /\ resp.code = 400 => Caller.role = "Reporter"
  /\ resp.code \in {400, 403, 404} => tickets = before.tickets

\* an admin's status update with a status outside the enumeration, for an id
\* the table does not hold while it holds another ticket, was answered 404
C19_Witness ==
  /\ req.op = "update_status"
  /\ Caller.role = "Admin"
  /\ ~OnExisting
  /\ before.tickets # <<>>
  /\ req.data = StatusBody("done")
  /\ resp.code = 404

=============================================================================
